---- MODULE Spec2Model ----
(***************************************************************************)
(* Model of the periodic ingestion jobs of the vessel tracking backend:    *)
(* position sync (syncAISData), weather sync (syncWeatherData) and port    *)
(* congestion sync (syncCongestionData), the documents they read and write *)
(* (Vessel, VesselTrack, SafetyZone, Alert, Port), the events they emit and *)
(* the cron scheduling that starts them; and of the login route            *)
(* (POST /api/auth/login) with the failed-attempt counter of the account.  *)
(*                                                                         *)
(* Each run of a job is an async function: it is one record of `runs`,     *)
(* suspended at an await.  One action is one database operation taking     *)
(* effect plus the synchronous code that follows it up to the next await.  *)
(* Time is counted in hours; positions are metres along one axis.          *)
(***************************************************************************)
EXTENDS Integers, Sequences, FiniteSets, Bags, TLC

\* lastNear and cleared record what the proximity queries have found so far:
\* lastNear[v] is the outcome of the latest query for vessel v, cleared[v] holds
\* when a query has found v outside every storm since a weather alert was
\* last created for it.  No job reads them.
\* user is the account the login route looks up, logins the login requests
\* being served, clock the time of the login route in minutes.
VARIABLES now, vessels, tracks, zones, alerts, ports, emitted, runs,
          aisConfigured, weatherConfigured, processUp, lastNear, cleared,
          user, logins, clock

authVars == <<user, logins, clock>>

jobVars == <<now, vessels, tracks, zones, alerts, ports, emitted, runs,
             aisConfigured, weatherConfigured, processUp, lastNear, cleared>>

vars == <<jobVars, authVars>>

\* ---------------------------------------------------------------- bounds
MaxHours == 1
MaxRuns == 2
MaxWeatherRuns == 3
MaxTotalRuns == 4
MaxOverlap == 2
MaxZoneUpdates == 1
NumVessels == 2
NumZones == 2
NumPorts == 1
MaxLogins == 6
MaxLoginOverlap == 2
MaxMinutes == 30
ClockStep == 10
MaxPortVersion == 3

\* ------------------------------------------------------- program constants
FindLimit == 10
MaxTrackPositions == 1000
RetentionHours == 8760
StormMaxAgeHours == 12
MaxDistance == 92600
AlertTtlHours == 24
HistoryHours == 720
HalfDegree == 55560
MaxAttempts == 5
LockoutMinutes == 15

\* the clock starts late enough for every cutoff the jobs compute to be >= 0
StartTime == StormMaxAgeHours
MaxTime == StartTime + MaxHours
Jobs == {"ais", "weather", "congestion"}

VesselIds == 1..NumVessels
ZoneIds == 1..NumZones
PortIds == 1..NumPorts
RunIds == 1..MaxTotalRuns
TrackIds == 1..(NumVessels * (MaxRuns + 1))
Deltas == {0 - 555, 555}

NoPosition == [set |-> FALSE, latitude |-> 0, timestamp |-> 0]
NoTrack == [id |-> 0, positions |-> <<>>, version |-> 0]
NoPort == [maxVessels |-> 0, latitude |-> 0,
           currentCongestion |-> [status |-> "green", vesselsWaiting |-> 0, lastUpdated |-> 0],
           congestionHistory |-> <<>>, version |-> 0]

Min(a, b) == IF a < b THEN a ELSE b

\* indices of a sequence that satisfy nothing in particular: 1..Len
Indices(s) == 1..Len(s)

\* ------------------------------------------------------------------ runs
NewRun(job, pc) ==
  [job |-> job, pc |-> pc, batch |-> <<>>, idx |-> 0,
   newPosition |-> NoPosition, track |-> NoTrack,
   issuedAt |-> 0, queriedAt |-> 0, nearbyStorms |-> {}, port |-> NoPort,
   previousStatus |-> "green", fetchFailed |-> FALSE,
   failed |-> FALSE]

\* a run that has returned: its locals are gone
Finish(run) == [NewRun(run.job, "done") EXCEPT !.failed = run.failed]

RunsOf(job) == {r \in Indices(runs) : runs[r].job = job}
Running(job) == {r \in RunsOf(job) : runs[r].pc # "done"}

\* the document the loop of run r is at
Cur(r) == runs[r].batch[runs[r].idx]

\* ---------------------------------------------------------- publish sink
\* io.emit / io.to(room).emit: the events handed to the sink so far
Emit(e) == emitted (+) SetToBag({e})

Published(event) ==
  [e \in {x \in BagToSet(emitted) : x.event = event} |-> emitted[e]]

\* ------------------------------------------------------------- scheduler
\* a try block that closes before the per-document loop of the job
TryCoversFirstQuery(job, pc) ==
  \/ job = "ais" /\ pc = "find"
  \/ job = "weather" /\ pc \in {"findVessels", "findStorms", "deactivate"}
  \/ job = "congestion" /\ pc = "findPorts"

\* the awaits that lie inside the outer try { } catch of their job; a
\* rejection there is logged by the catch block and the job returns normally
TryCovers(job, pc) ==
  \/ job = "ais" /\ pc \in {"find", "saveVessel", "findTrack", "createTrack", "saveTrack"}
  \/ job = "weather" /\ pc \in {"findVessels", "findStorms", "deactivate", "near", "findAlert", "createAlert"}
  \/ job = "congestion" /\ pc \in {"findPorts", "findVessels", "savePort", "createAlert"}

\* jobs that do not look at their configuration
FirstStepAlways(job) ==
  CASE job = "ais" -> NewRun(job, "fetch")
    [] job = "weather" -> NewRun(job, "findVessels")
    [] job = "congestion" -> NewRun(job, "findPorts")

\* first statements of each job, up to its first await
FirstStep(job) ==
  CASE job = "ais" -> IF aisConfigured THEN NewRun(job, "fetch") ELSE NewRun(job, "done")
    [] job = "weather" -> IF weatherConfigured THEN NewRun(job, "findVessels") ELSE NewRun(job, "done")
    [] job = "congestion" -> NewRun(job, "findPorts")

RunBound(job) == IF job = "weather" THEN MaxWeatherRuns ELSE MaxRuns

\* cron.schedule(..., job): every firing calls the job function
CronTick(job) ==
  /\ processUp
  /\ Cardinality(RunsOf(job)) < RunBound(job)
  /\ Len(runs) < MaxTotalRuns
  /\ Cardinality(Running(job)) < MaxOverlap
  /\ runs' = Append(runs, FirstStep(job))
  /\ UNCHANGED <<authVars, now, vessels, tracks, zones, alerts, ports, emitted,
                 aisConfigured, weatherConfigured, processUp, lastNear, cleared>>

\* the wall clock
AdvanceTime ==
  /\ now < MaxTime
  /\ now' = now + 1
  /\ UNCHANGED <<authVars, vessels, tracks, zones, alerts, ports, emitted, runs,
                 aisConfigured, weatherConfigured, processUp, lastNear, cleared>>

\* a rejected await of the job body (the axios call has its own inner
\* try): control leaves the loop; inside the try it reaches the catch block,
\* outside it the rejection would be unhandled and end the process
AwaitRejects(r) ==
  /\ r \in Indices(runs)
  /\ runs[r].pc \notin {"done", "fetch"}
  /\ runs' = [runs EXCEPT ![r] = Finish([runs[r] EXCEPT !.failed = TRUE])]
  /\ processUp' = (processUp /\ TryCovers(runs[r].job, runs[r].pc))
  /\ UNCHANGED <<authVars, now, vessels, tracks, zones, alerts, ports, emitted,
                 aisConfigured, weatherConfigured, lastNear, cleared>>

\* ------------------------------------------------------- position sync
\* Vessel.find({status: 'underway'}).limit(10)
UnderwayIds == {v \in VesselIds : vessels[v].status = "underway"}

RECURSIVE SetToSeq(_)
SetToSeq(S) ==
  IF S = {} THEN <<>>
  ELSE LET m == CHOOSE x \in S : \A y \in S : x <= y
       IN <<m>> \o SetToSeq(S \ {m})

Snapshot(ids) ==
  [i \in 1..Len(ids) |-> [id |-> ids[i], currentPosition |-> vessels[ids[i]].currentPosition]]

Limit(s, n) == SubSeq(s, 1, Min(n, Len(s)))

\* for (const vessel of vessels) { if (!vessel.currentPosition) continue; ...
RECURSIVE SkipNoPosition(_, _)
SkipNoPosition(batch, i) ==
  IF i > Len(batch) THEN i
  ELSE IF batch[i].currentPosition.set THEN i
  ELSE SkipNoPosition(batch, i + 1)

\* the value of undefined + number: the latitude of a position record that
\* has no latitude, once line 53 has added the random movement to it
NotANumber == 0 - 1000000

\* the simulated reading of lines 52-59
SimulatedPosition(doc, d) ==
  [set |-> TRUE,
   latitude |-> IF doc.currentPosition.latitude = NotANumber THEN NotANumber
                ELSE doc.currentPosition.latitude + d,
   timestamp |-> now]

\* the loop of syncAISData moving on to document i of the batch: either the
\* batch is exhausted and the run completes, or the next reading is built
\* and vessel.save() is issued
AisLoop(run, i, d) ==
  LET j == SkipNoPosition(run.batch, i)
  IN IF j > Len(run.batch)
     THEN Finish(run)
     ELSE [run EXCEPT !.pc = "saveVessel", !.idx = j,
                      !.newPosition = SimulatedPosition(run.batch[j], d)]

\* what await axios.get(...) can give: a response whose data is an array,
\* another response, or a rejection (network error, timeout, error status)
FetchOutcomes == {"array", "other", "rejected"}

\* an inner try whose catch block rethrows to the outer one
AfterFetchFatal(run, outcome) ==
  IF outcome = "rejected" THEN Finish([run EXCEPT !.failed = TRUE])
  ELSE [run EXCEPT !.pc = "find", !.fetchFailed = outcome # "array"]

\* the inner try { await axios.get(...) } catch (e) { logger.debug(...) }:
\* whatever the outcome, control reaches Vessel.find
AfterFetch(run, outcome) ==
  [run EXCEPT !.pc = "find", !.fetchFailed = outcome # "array"]

AisFetch(r) ==
  /\ r \in Indices(runs)
  /\ runs[r].job = "ais" /\ runs[r].pc = "fetch"
  /\ \E outcome \in FetchOutcomes : runs' = [runs EXCEPT ![r] = AfterFetch(runs[r], outcome)]
  /\ UNCHANGED <<authVars, now, vessels, tracks, zones, alerts, ports, emitted,
                 aisConfigured, weatherConfigured, processUp, lastNear, cleared>>

AisFind(r) ==
  /\ r \in Indices(runs)
  /\ runs[r].job = "ais" /\ runs[r].pc = "find"
  /\ \E d \in Deltas :
       runs' = [runs EXCEPT ![r] =
                  AisLoop([runs[r] EXCEPT !.batch = Limit(Snapshot(SetToSeq(UnderwayIds)), FindLimit),
                                          !.fetchFailed = FALSE], 1, d)]
  /\ UNCHANGED <<authVars, now, vessels, tracks, zones, alerts, ports, emitted,
                 aisConfigured, weatherConfigured, processUp, lastNear, cleared>>

\* what vessel.save() writes to the stored vessel
SavedVessel(stored, newPosition) ==
  [stored EXCEPT !.currentPosition = newPosition, !.aisLastUpdate = newPosition.timestamp]

\* vessel.save() casts currentPosition.latitude to Number; the cast of NaN
\* fails and save() rejects with a validation error
CastFails(newPosition) == newPosition.latitude = NotANumber

AisSaveVessel(r) ==
  /\ r \in Indices(runs)
  /\ runs[r].job = "ais" /\ runs[r].pc = "saveVessel"
  /\ IF CastFails(runs[r].newPosition)
     THEN /\ runs' = [runs EXCEPT ![r] = Finish([runs[r] EXCEPT !.failed = TRUE])]
          /\ UNCHANGED vessels
     ELSE /\ vessels' = [vessels EXCEPT ![Cur(r).id] = SavedVessel(@, runs[r].newPosition)]
          /\ runs' = [runs EXCEPT ![r].pc = "findTrack"]
  /\ UNCHANGED <<authVars, now, tracks, zones, alerts, ports, emitted,
                 aisConfigured, weatherConfigured, processUp, lastNear, cleared>>

\* VesselTrack.findOne({mmsi, endTime: null}).sort({startTime: -1})
\* (a document the TTL monitor has removed is kept in the model, marked deleted)
OpenTracks(mmsi) ==
  {t \in Indices(tracks) : tracks[t].mmsi = mmsi /\ tracks[t].endTime = 0 - 1 /\ ~tracks[t].deleted}

FindOpenTrack(mmsi) ==
  IF OpenTracks(mmsi) = {} THEN 0
  ELSE CHOOSE t \in OpenTracks(mmsi) :
         \A u \in OpenTracks(mmsi) :
            \/ tracks[u].startTime < tracks[t].startTime
            \/ (tracks[u].startTime = tracks[t].startTime /\ u >= t)

AisFindTrack(r) ==
  /\ r \in Indices(runs)
  /\ runs[r].job = "ais" /\ runs[r].pc = "findTrack"
  /\ LET t == FindOpenTrack(Cur(r).id)
     IN runs' = [runs EXCEPT ![r].pc = IF t = 0 THEN "createTrack" ELSE "saveTrack",
                             ![r].track = IF t = 0 THEN NoTrack
                                          ELSE [id |-> t, positions |-> tracks[t].positions,
                                                version |-> tracks[t].version]]
  /\ UNCHANGED <<authVars, now, vessels, tracks, zones, alerts, ports, emitted,
                 aisConfigured, weatherConfigured, processUp, lastNear, cleared>>

PositionEvent(r) ==
  [event |-> "vessel:position:updated", id |-> Cur(r).id, data |-> runs[r].newPosition.timestamp]

\* a track created without its first position
NewTrackEmpty(mmsi, newPosition) ==
  [mmsi |-> mmsi, startTime |-> now, endTime |-> 0 - 1,
   positions |-> <<>>,
   retentionDate |-> now + RetentionHours,
   version |-> 0, deleted |-> FALSE]

\* VesselTrack.create({...}): endTime is not given (-1 stands for none)
NewTrack(mmsi, newPosition) ==
  [mmsi |-> mmsi, startTime |-> now, endTime |-> 0 - 1,
   positions |-> <<newPosition>>,
   retentionDate |-> now + RetentionHours,
   version |-> 0, deleted |-> FALSE]

AisCreateTrack(r) ==
  /\ r \in Indices(runs)
  /\ runs[r].job = "ais" /\ runs[r].pc = "createTrack"
  /\ tracks' = Append(tracks, NewTrack(Cur(r).id, runs[r].newPosition))
  /\ emitted' = Emit(PositionEvent(r))
  /\ \E d \in Deltas : runs' = [runs EXCEPT ![r] = AisLoop(runs[r], runs[r].idx + 1, d)]
  /\ UNCHANGED <<authVars, now, vessels, zones, alerts, ports,
                 aisConfigured, weatherConfigured, processUp, lastNear, cleared>>

\* track.positions.push(newPosition) and the slice to the last 1000, on the
\* loaded document
PushedPositions(loaded, newPosition) ==
  LET local == Append(loaded, newPosition)
  IN IF Len(local) > MaxTrackPositions
     THEN SubSeq(local, Len(local) - MaxTrackPositions + 1, Len(local))
     ELSE local

\* the positions array was reassigned by the slice
Sliced(loaded) == Len(loaded) + 1 > MaxTrackPositions

\* track.save() that also moves startTime to the oldest retained position
SavedTrackRestart(stored, loaded, newPosition) ==
  [stored EXCEPT !.positions = IF Sliced(loaded.positions)
                               THEN PushedPositions(loaded.positions, newPosition)
                               ELSE Append(@, newPosition),
                 !.startTime = PushedPositions(loaded.positions, newPosition)[1].timestamp,
                 !.version = @ + 1]

\* track.save(): only positions is modified.  A push is sent as an append to
\* the stored array, a reassigned array replaces the stored one; both
\* increment the document version
SavedTrack(stored, loaded, newPosition) ==
  [stored EXCEPT !.positions = IF Sliced(loaded.positions)
                               THEN PushedPositions(loaded.positions, newPosition)
                               ELSE Append(@, newPosition),
                 !.version = @ + 1]

\* track.save() rejects when the document is gone, or when the array is
\* replaced and the stored version is no longer the loaded one
SaveRejected(stored, loaded) ==
  \/ stored.deleted
  \/ Sliced(loaded.positions) /\ stored.version # loaded.version

AisSaveTrack(r) ==
  /\ r \in Indices(runs)
  /\ runs[r].job = "ais" /\ runs[r].pc = "saveTrack"
  /\ IF SaveRejected(tracks[runs[r].track.id], runs[r].track)
     THEN /\ runs' = [runs EXCEPT ![r] = Finish([runs[r] EXCEPT !.failed = TRUE])]
          /\ UNCHANGED <<tracks, emitted>>
     ELSE /\ tracks' = [tracks EXCEPT ![runs[r].track.id] =
                           SavedTrack(@, runs[r].track, runs[r].newPosition)]
          /\ emitted' = Emit(PositionEvent(r))
          /\ \E d \in Deltas : runs' = [runs EXCEPT ![r] = AisLoop(runs[r], runs[r].idx + 1, d)]
  /\ UNCHANGED <<authVars, now, vessels, zones, alerts, ports,
                 aisConfigured, weatherConfigured, processUp, lastNear, cleared>>

\* the TTL index on retentionDate (expireAfterSeconds: 0): the database
\* removes a track once its retentionDate has passed
TtlExpire(t) ==
  /\ t \in Indices(tracks)
  /\ ~tracks[t].deleted
  /\ tracks[t].retentionDate <= now
  /\ tracks' = [tracks EXCEPT ![t].deleted = TRUE]
  /\ UNCHANGED <<authVars, now, vessels, zones, alerts, ports, emitted, runs,
                 aisConfigured, weatherConfigured, processUp, lastNear, cleared>>

\* -------------------------------------------------------- weather sync
\* Vessel.find({status: {$in: ['underway', 'at_anchor']}})
ActiveVesselIds == {v \in VesselIds : vessels[v].status \in {"underway", "at_anchor"}}

WeatherFindVessels(r) ==
  /\ r \in Indices(runs)
  /\ runs[r].job = "weather" /\ runs[r].pc = "findVessels"
  /\ runs' = [runs EXCEPT ![r].batch = Snapshot(SetToSeq(ActiveVesselIds)),
                          ![r].pc = "findStorms"]
  /\ UNCHANGED <<authVars, now, vessels, tracks, zones, alerts, ports, emitted,
                 aisConfigured, weatherConfigured, processUp, lastNear, cleared>>

\* SafetyZone.find({type: 'storm', isActive: true}); the result is not used.
\* twelveHoursAgo and the new endDate are computed before updateMany is issued.
WeatherFindStorms(r) ==
  /\ r \in Indices(runs)
  /\ runs[r].job = "weather" /\ runs[r].pc = "findStorms"
  /\ runs' = [runs EXCEPT ![r].pc = "deactivate", ![r].issuedAt = now]
  /\ UNCHANGED <<authVars, now, vessels, tracks, zones, alerts, ports, emitted,
                 aisConfigured, weatherConfigured, processUp, lastNear, cleared>>

\* SafetyZone.updateMany({type: 'storm', isActive: true, startDate < twelveHoursAgo}, ...)
DeactivateOldStorms(zs, at) ==
  [z \in DOMAIN zs |->
     IF zs[z].type = "storm" /\ zs[z].isActive /\ zs[z].startDate < at - StormMaxAgeHours
     THEN [zs[z] EXCEPT !.isActive = FALSE, !.endDate = at]
     ELSE zs[z]]

\* the loop of syncWeatherData moving on to document i of the batch
WeatherLoop(run, i) ==
  LET j == SkipNoPosition(run.batch, i)
  IN IF j > Len(run.batch) THEN Finish(run)
     ELSE [run EXCEPT !.pc = "near", !.idx = j, !.nearbyStorms = {}, !.queriedAt = 0]

WeatherDeactivate(r) ==
  /\ r \in Indices(runs)
  /\ runs[r].job = "weather" /\ runs[r].pc = "deactivate"
  /\ zones' = DeactivateOldStorms(zones, runs[r].issuedAt)
  /\ runs' = [runs EXCEPT ![r] = WeatherLoop(runs[r], 1)]
  /\ UNCHANGED <<authVars, now, vessels, tracks, alerts, ports, emitted,
                 aisConfigured, weatherConfigured, processUp, lastNear, cleared>>

\* the weather alerts ever created for a vessel, whatever their status
WeatherAlerts(v) == {a \in Indices(alerts) : alerts[a].type = "weather" /\ alerts[a].vessel = v}

\* distance from a position to the nearest point of a zone's geometry
Distance(lat, z) ==
  IF lat < z.south THEN z.south - lat ELSE IF lat > z.north THEN lat - z.north ELSE 0

\* SafetyZone.find({type: 'storm', isActive: true, geometry: {$near: ..., $maxDistance: 92600}})
NearbyStorms(position) ==
  {[id |-> z, severity |-> zones[z].severity,
    startDate |-> zones[z].startDate, endDate |-> zones[z].endDate] :
     z \in {y \in ZoneIds : /\ zones[y].type = "storm"
                            /\ zones[y].isActive
                            /\ Distance(position.latitude, zones[y]) <= MaxDistance}}

\* the test with >= in place of >
StormsFoundAlways(storms) == Cardinality(storms) >= 0

\* if (nearbyStorms.length > 0)
StormsFound(storms) == Cardinality(storms) > 0

WeatherNear(r) ==
  /\ r \in Indices(runs)
  /\ runs[r].job = "weather" /\ runs[r].pc = "near"
  /\ LET storms == NearbyStorms(Cur(r).currentPosition)
     IN /\ runs' = [runs EXCEPT ![r] =
                      IF StormsFound(storms)
                      THEN [runs[r] EXCEPT !.pc = "findAlert", !.nearbyStorms = storms,
                                           !.queriedAt = now]
                      ELSE WeatherLoop(runs[r], runs[r].idx + 1)]
        /\ lastNear' = [lastNear EXCEPT ![Cur(r).id] = IF storms = {} THEN "out" ELSE "in"]
        /\ cleared' = [cleared EXCEPT ![Cur(r).id] = @ \/ (storms = {} /\ WeatherAlerts(Cur(r).id) # {})]
  /\ UNCHANGED <<authVars, now, vessels, tracks, zones, alerts, ports, emitted,
                 aisConfigured, weatherConfigured, processUp>>

\* Alert.findOne({type: 'weather', affectedVessels: vessel._id, status: 'active'})
ActiveWeatherAlerts(v) ==
  {a \in Indices(alerts) : /\ alerts[a].type = "weather"
                           /\ alerts[a].vessel = v
                           /\ alerts[a].status = "active"}

ExistingAlert(v) == IF ActiveWeatherAlerts(v) = {} THEN 0 ELSE CHOOSE a \in ActiveWeatherAlerts(v) : TRUE

WeatherFindAlert(r) ==
  /\ r \in Indices(runs)
  /\ runs[r].job = "weather" /\ runs[r].pc = "findAlert"
  /\ runs' = [runs EXCEPT ![r] =
                IF ExistingAlert(Cur(r).id) = 0
                THEN [runs[r] EXCEPT !.pc = "createAlert", !.issuedAt = now]
                ELSE WeatherLoop(runs[r], runs[r].idx + 1)]
  /\ UNCHANGED <<authVars, now, vessels, tracks, zones, alerts, ports, emitted,
                 aisConfigured, weatherConfigured, processUp, lastNear, cleared>>

\* severity: nearbyStorms.some(s => s.severity === 'critical') ? 'critical' : 'warning'
AlertSeverity(storms) ==
  IF \E s \in storms : s.severity = "critical" THEN "critical" ELSE "warning"

WeatherAlert(v, storms, at) ==
  [type |-> "weather", severity |-> AlertSeverity(storms), vessel |-> v, port |-> 0,
   status |-> "active", createdAt |-> at, expiresAt |-> at + AlertTtlHours,
   count |-> Cardinality(storms)]

WeatherCreateAlert(r) ==
  /\ r \in Indices(runs)
  /\ runs[r].job = "weather" /\ runs[r].pc = "createAlert"
  /\ alerts' = Append(alerts, WeatherAlert(Cur(r).id, runs[r].nearbyStorms, runs[r].issuedAt))
  /\ emitted' = Emit([event |-> "alert:created", id |-> Cur(r).id, data |-> Len(alerts) + 1])
  /\ runs' = [runs EXCEPT ![r] = WeatherLoop(runs[r], runs[r].idx + 1)]
  /\ cleared' = [cleared EXCEPT ![Cur(r).id] = FALSE]
  /\ UNCHANGED <<authVars, now, vessels, tracks, zones, ports,
                 aisConfigured, weatherConfigured, processUp, lastNear>>

\* PUT /api/safety/zones/:id with body {isActive: b}
ZoneUpdates == BagCardinality(Published("safety:zone:updated"))

AdminUpdateZone(z, b) ==
  /\ ZoneUpdates < MaxZoneUpdates
  /\ zones' = [zones EXCEPT ![z].isActive = b]
  /\ emitted' = Emit([event |-> "safety:zone:updated", id |-> z, data |-> 0])
  /\ UNCHANGED <<authVars, now, vessels, tracks, alerts, ports, runs,
                 aisConfigured, weatherConfigured, processUp, lastNear, cleared>>

\* ------------------------------------------------------ congestion sync
\* Port.find({})
PortSnapshot == [i \in 1..NumPorts |-> [id |-> i, port |-> ports[i]]]

\* the loop of syncCongestionData moving on to document i of the batch
CongestionLoop(run, i) ==
  IF i > Len(run.batch) THEN Finish(run)
  ELSE [run EXCEPT !.pc = "findVessels", !.idx = i]

CongestionFindPorts(r) ==
  /\ r \in Indices(runs)
  /\ runs[r].job = "congestion" /\ runs[r].pc = "findPorts"
  /\ runs' = [runs EXCEPT ![r] = CongestionLoop([runs[r] EXCEPT !.batch = PortSnapshot], 1)]
  /\ UNCHANGED <<authVars, now, vessels, tracks, zones, alerts, ports, emitted,
                 aisConfigured, weatherConfigured, processUp, lastNear, cleared>>

\* Vessel.find({$or: [{'destination.port': port.name}, {status in [at_anchor, moored], position in the box}]})
PortVessels(p, port) ==
  {v \in VesselIds :
     \/ vessels[v].destination = p
     \/ /\ vessels[v].status \in {"at_anchor", "moored"}
        /\ vessels[v].currentPosition.set
        /\ vessels[v].currentPosition.latitude >= port.latitude - HalfDegree
        /\ vessels[v].currentPosition.latitude <= port.latitude + HalfDegree}

\* lines 276-304: the congestion status from berth utilisation or, without
\* capacity data, from the number of vessels waiting
CongestionStatus(port, waiting, berthed) ==
  IF port.maxVessels # 0
  THEN IF berthed * 100 > 80 * port.maxVessels THEN "red"
       ELSE IF berthed * 100 > 60 * port.maxVessels THEN "yellow"
       ELSE "green"
  ELSE IF waiting > 10 THEN "red"
       ELSE IF waiting > 5 THEN "yellow"
       ELSE "green"

\* a filter that keeps every entry
KeepAll(h, cutoff) == h

\* port.congestionHistory.filter(h => new Date(h.timestamp) > thirtyDaysAgo)
RECURSIVE KeepRecent(_, _)
KeepRecent(h, cutoff) ==
  IF h = <<>> THEN <<>>
  ELSE IF h[1].timestamp > cutoff THEN <<h[1]>> \o KeepRecent(Tail(h), cutoff)
  ELSE KeepRecent(Tail(h), cutoff)

\* lines 306-328: the loaded port document after the run has changed it
UpdatedPort(port, status, waiting) ==
  [port EXCEPT
     !.currentCongestion = [status |-> status, vesselsWaiting |-> waiting, lastUpdated |-> now],
     !.congestionHistory =
        KeepRecent(Append(port.congestionHistory,
                          [timestamp |-> now, vesselsWaiting |-> waiting, status |-> status]),
                   now - HistoryHours)]

CongestionFindVessels(r) ==
  /\ r \in Indices(runs)
  /\ runs[r].job = "congestion" /\ runs[r].pc = "findVessels"
  /\ LET port == Cur(r).port
         found == PortVessels(Cur(r).id, port)
         waiting == Cardinality({v \in found : vessels[v].status = "at_anchor"})
         berthed == Cardinality({v \in found : vessels[v].status = "moored"})
         status == CongestionStatus(port, waiting, berthed)
     IN runs' = [runs EXCEPT ![r].pc = "savePort",
                             ![r].previousStatus = port.currentCongestion.status,
                             ![r].port = UpdatedPort(port, status, waiting)]
  /\ UNCHANGED <<authVars, now, vessels, tracks, zones, alerts, ports, emitted,
                 aisConfigured, weatherConfigured, processUp, lastNear, cleared>>

\* the test on the computed status alone
TurnedRedAlways(status, previousStatus) == status = "red"

\* if (status === 'red' && previousStatus !== 'red')
TurnedRed(status, previousStatus) == status = "red" /\ previousStatus # "red"

\* port.save(): currentCongestion and the reassigned congestionHistory
\* replace the stored ones and the document version is incremented
SavedPort(stored, loaded) == [loaded EXCEPT !.version = stored.version + 1]

\* port.save() replaces an array, so it rejects when the stored version is
\* no longer the loaded one
PortSaveRejected(stored, loaded) == stored.version # loaded.version

\* await port.save(), the emit, and the decision to create an alert
CongestionSavePort(r) ==
  /\ r \in Indices(runs)
  /\ runs[r].job = "congestion" /\ runs[r].pc = "savePort"
  /\ IF PortSaveRejected(ports[Cur(r).id], runs[r].port)
     THEN /\ runs' = [runs EXCEPT ![r] = Finish([runs[r] EXCEPT !.failed = TRUE])]
          /\ UNCHANGED <<ports, emitted>>
     ELSE /\ ports' = [ports EXCEPT ![Cur(r).id] = SavedPort(@, runs[r].port)]
          /\ emitted' = Emit([event |-> "port:congestion:updated", id |-> Cur(r).id,
                                         data |-> runs[r].port.currentCongestion.lastUpdated])
          /\ runs' = [runs EXCEPT ![r] =
                        IF TurnedRed(runs[r].port.currentCongestion.status, runs[r].previousStatus)
                        THEN [runs[r] EXCEPT !.pc = "createAlert", !.issuedAt = now]
                        ELSE CongestionLoop([runs[r] EXCEPT !.port = NoPort], runs[r].idx + 1)]
  /\ UNCHANGED <<authVars, now, vessels, tracks, zones, alerts,
                 aisConfigured, weatherConfigured, processUp, lastNear, cleared>>

CongestionAlert(p, port, at) ==
  [type |-> "congestion", severity |-> "warning", vessel |-> 0, port |-> p,
   status |-> "active", createdAt |-> at, expiresAt |-> at + AlertTtlHours,
   count |-> port.currentCongestion.vesselsWaiting]

CongestionCreateAlert(r) ==
  /\ r \in Indices(runs)
  /\ runs[r].job = "congestion" /\ runs[r].pc = "createAlert"
  /\ alerts' = Append(alerts, CongestionAlert(Cur(r).id, runs[r].port, runs[r].issuedAt))
  /\ runs' = [runs EXCEPT ![r] = CongestionLoop([runs[r] EXCEPT !.port = NoPort], runs[r].idx + 1)]
  /\ UNCHANGED <<authVars, now, vessels, tracks, zones, ports, emitted,
                 aisConfigured, weatherConfigured, processUp, lastNear, cleared>>

\* POST /api/ports/:id/congestion with body {status, vesselsWaiting: 1}: the
\* history entry is pushed onto the stored array and currentCongestion is
\* replaced; the save increments the document version and checks nothing
AdminUpdatePort(p, status) ==
  /\ ports[p].version < MaxPortVersion
  /\ ports' = [ports EXCEPT
                 ![p].congestionHistory =
                    Append(@, [timestamp |-> now, vesselsWaiting |-> 1, status |-> status]),
                 ![p].currentCongestion =
                    [status |-> status, vesselsWaiting |-> 1, lastUpdated |-> now],
                 ![p].version = @ + 1]
  /\ emitted' = Emit([event |-> "port:congestion:updated", id |-> p, data |-> now])
  /\ UNCHANGED <<authVars, now, vessels, tracks, zones, alerts, runs,
                 aisConfigured, weatherConfigured, processUp, lastNear, cleared>>

\* ------------------------------------------------------------------ login
LoginSlots == 1..MaxLoginOverlap

NoUser == [isActive |-> FALSE, isLocked |-> FALSE, loginAttempts |-> 0,
           lockoutUntil |-> 0, lastLogin |-> 0]
NoUpdate == [kind |-> "none", lockoutUntil |-> 0]

\* a request of POST /api/auth/login: correct tells whether the password
\* matches, known whether the email is that of the account; status 0 stands
\* for no response yet
NewLogin(correct, known) ==
  [pc |-> "find", correct |-> correct, known |-> known,
   user |-> NoUser, update |-> NoUpdate, status |-> 0]

\* return res.status(...): the handler's locals are gone
Respond(req, status) ==
  [NewLogin(req.correct, req.known) EXCEPT !.pc = "done", !.status = status]

\* a request arrives and is served in the first slot that is not in use
LoginRequest(i, correct, known) ==
  /\ i \in LoginSlots
  /\ logins[i].pc \in {"idle", "done"}
  /\ \A j \in LoginSlots : j < i => logins[j].pc \notin {"idle", "done"}
  /\ user.loginAttempts < MaxLogins
  /\ logins' = [logins EXCEPT ![i] = NewLogin(correct, known)]
  /\ UNCHANGED <<jobVars, user, clock>>

AdvanceClock ==
  /\ clock < MaxMinutes
  /\ clock' = clock + ClockStep
  /\ UNCHANGED <<jobVars, user, logins>>

\* if (user.isLocked && user.lockoutUntil > Date.now())
LockedOut(u, at) == u.isLocked /\ u.lockoutUntil > at

\* await User.findOne({email}) and the checks of lines 60-75
LoginFind(i) ==
  /\ i \in LoginSlots
  /\ logins[i].pc = "find"
  /\ logins' = [logins EXCEPT ![i] =
                  IF ~logins[i].known THEN Respond(@, 401)
                  ELSE IF LockedOut(user, clock) THEN Respond(@, 423)
                  ELSE IF ~user.isActive THEN Respond(@, 401)
                  ELSE [@ EXCEPT !.pc = "compare", !.user = user]]
  /\ UNCHANGED <<jobVars, user, clock>>

\* userSchema.methods.incrementLoginAttempts up to the updateOne it issues
IncrementUpdate(u, at) ==
  IF u.lockoutUntil # 0 /\ u.lockoutUntil < at
  THEN [kind |-> "restart", lockoutUntil |-> 0]
  ELSE [kind |-> "inc",
        lockoutUntil |-> IF u.loginAttempts + 1 >= MaxAttempts /\ ~u.isLocked
                         THEN at + LockoutMinutes ELSE 0]

\* the updateOne of incrementLoginAttempts applied to the stored account
ApplyUpdate(stored, update) ==
  IF update.kind = "restart"
  THEN [stored EXCEPT !.loginAttempts = 1, !.lockoutUntil = 0]
  ELSE [stored EXCEPT !.loginAttempts = @ + 1,
                      !.lockoutUntil = IF update.lockoutUntil # 0 THEN update.lockoutUntil ELSE @]

\* await user.comparePassword(password) and what follows it up to the next await
LoginCompare(i) ==
  /\ i \in LoginSlots
  /\ logins[i].pc = "compare"
  /\ logins' = [logins EXCEPT ![i] =
                  IF ~logins[i].correct
                  THEN [@ EXCEPT !.pc = "increment", !.update = IncrementUpdate(logins[i].user, clock)]
                  ELSE IF logins[i].user.loginAttempts > 0 \/ logins[i].user.lockoutUntil # 0
                  THEN [@ EXCEPT !.pc = "reset"]
                  ELSE [@ EXCEPT !.pc = "save", !.user.lastLogin = clock]]
  /\ UNCHANGED <<jobVars, user, clock>>

\* await user.incrementLoginAttempts(); return res.status(401)
LoginIncrement(i) ==
  /\ i \in LoginSlots
  /\ logins[i].pc = "increment"
  /\ user' = ApplyUpdate(user, logins[i].update)
  /\ logins' = [logins EXCEPT ![i] = Respond(@, 401)]
  /\ UNCHANGED <<jobVars, clock>>

\* await user.resetLoginAttempts(); user.lastLogin = Date.now()
LoginReset(i) ==
  /\ i \in LoginSlots
  /\ logins[i].pc = "reset"
  /\ user' = [user EXCEPT !.loginAttempts = 0, !.lockoutUntil = 0]
  /\ logins' = [logins EXCEPT ![i].pc = "save", ![i].user.lastLogin = clock]
  /\ UNCHANGED <<jobVars, clock>>

\* await user.save() (only lastLogin is modified); sendTokenResponse(user, 200, res)
LoginSave(i) ==
  /\ i \in LoginSlots
  /\ logins[i].pc = "save"
  /\ user' = [user EXCEPT !.lastLogin = logins[i].user.lastLogin]
  /\ logins' = [logins EXCEPT ![i] = Respond(@, 200)]
  /\ UNCHANGED <<jobVars, clock>>

\* ------------------------------------------------------------ publish fails
\* the emit that follows a write throws: the write has taken effect, nothing
\* reaches the sink and control goes to the catch block of the job
PublishThrows(r) ==
  /\ r \in Indices(runs)
  /\ \/ /\ runs[r].job = "ais" /\ runs[r].pc = "createTrack"
        /\ tracks' = Append(tracks, NewTrack(Cur(r).id, runs[r].newPosition))
        /\ UNCHANGED <<alerts, ports, cleared>>
     \/ /\ runs[r].job = "ais" /\ runs[r].pc = "saveTrack"
        /\ ~SaveRejected(tracks[runs[r].track.id], runs[r].track)
        /\ tracks' = [tracks EXCEPT ![runs[r].track.id] =
                         SavedTrack(@, runs[r].track, runs[r].newPosition)]
        /\ UNCHANGED <<alerts, ports, cleared>>
     \/ /\ runs[r].job = "weather" /\ runs[r].pc = "createAlert"
        /\ alerts' = Append(alerts, WeatherAlert(Cur(r).id, runs[r].nearbyStorms, runs[r].issuedAt))
        /\ cleared' = [cleared EXCEPT ![Cur(r).id] = FALSE]
        /\ UNCHANGED <<tracks, ports>>
     \/ /\ runs[r].job = "congestion" /\ runs[r].pc = "savePort"
        /\ ~PortSaveRejected(ports[Cur(r).id], runs[r].port)
        /\ ports' = [ports EXCEPT ![Cur(r).id] = SavedPort(@, runs[r].port)]
        /\ UNCHANGED <<tracks, alerts, cleared>>
  /\ runs' = [runs EXCEPT ![r] = Finish([runs[r] EXCEPT !.failed = TRUE])]
  /\ UNCHANGED <<authVars, now, vessels, zones, emitted,
                 aisConfigured, weatherConfigured, processUp, lastNear>>

\* ------------------------------------------------------------ initial states
InitVessel(status, hasPos, lat) ==
  [status |-> status, destination |-> 0,
   currentPosition |-> IF hasPos THEN [set |-> TRUE, latitude |-> lat, timestamp |-> 0] ELSE NoPosition,
   aisLastUpdate |-> 0]
InitPorts ==
  ports = [p \in PortIds |->
             [NoPort EXCEPT !.maxVessels = 1,
                            !.congestionHistory =
                               <<[timestamp |-> 0 - 1000, vesselsWaiting |-> 0, status |-> "green"],
                                 [timestamp |-> 0, vesselsWaiting |-> 0, status |-> "green"]>>]]

\* no login request has been received
InitLogins ==
  /\ logins = [i \in LoginSlots |-> [NewLogin(FALSE, FALSE) EXCEPT !.pc = "idle"]]
  /\ clock = ClockStep

InitStore ==
  /\ now = StartTime
  /\ alerts = <<>>
  /\ emitted = EmptyBag
  /\ processUp = TRUE
  /\ lastNear = [v \in VesselIds |-> "none"]
  /\ cleared = [v \in VesselIds |-> FALSE]

InitCommon ==
  /\ InitLogins
  /\ user = [NoUser EXCEPT !.isActive = TRUE]
  /\ InitStore

\* server start with only the position job: cron scheduled, syncAISData() called once.
\* Vessel 1 is underway; its position record may be absent, or present without
\* a latitude (the schema requires neither)
InitAis ==
  /\ InitCommon
  /\ tracks = <<>>
  /\ aisConfigured \in BOOLEAN
  /\ weatherConfigured = FALSE
  /\ vessels \in {[v \in VesselIds |-> InitVessel(IF v = 1 THEN "underway" ELSE s, p,
                                                   IF v = 1 THEN lat ELSE 0)] :
                    s \in {"underway", "moored"}, p \in BOOLEAN, lat \in {0, NotANumber}}
  /\ zones = [z \in ZoneIds |-> [type |-> "storm", severity |-> "high", isActive |-> FALSE,
                                 startDate |-> 0, endDate |-> 0 - 1, south |-> 0, north |-> 0]]
  /\ InitPorts
  /\ runs = <<FirstStep("ais")>>

NextAis ==
  \/ AdvanceTime
  \/ CronTick("ais")
  \/ \E r \in RunIds :
        \/ AisFetch(r)
        \/ AisFind(r)
        \/ AisSaveVessel(r)
        \/ AisFindTrack(r)
        \/ AisCreateTrack(r)
        \/ AisSaveTrack(r)
        \/ AwaitRejects(r)
        \/ PublishThrows(r)

SpecAis == InitAis /\ [][NextAis]_vars

\* a track that already holds n positions, one an hour, the last at hour 0
OldPositions(n) == [i \in 1..n |-> [set |-> TRUE, latitude |-> 0, timestamp |-> i - n]]

\* server start with only the position job, a year after the tracks were
\* opened: vessel 1 is underway and its open track is one position short of
\* the cap, vessel 2 is moored and has a short open track; the retention
\* date of both tracks is an hour away
InitTrack ==
  /\ InitCommon
  /\ aisConfigured = TRUE
  /\ weatherConfigured = FALSE
  /\ vessels = [v \in VesselIds |-> InitVessel(IF v = 1 THEN "underway" ELSE "moored", TRUE, 0)]
  /\ tracks = [v \in VesselIds |->
                 [mmsi |-> v, startTime |-> StartTime + 1 - RetentionHours, endTime |-> 0 - 1,
                  positions |-> OldPositions(IF v = 1 THEN MaxTrackPositions - 1 ELSE 1),
                  retentionDate |-> StartTime + 1,
                  version |-> 0, deleted |-> FALSE]]
  /\ zones = [z \in ZoneIds |-> [type |-> "storm", severity |-> "high", isActive |-> FALSE,
                                 startDate |-> 0, endDate |-> 0 - 1, south |-> 0, north |-> 0]]
  /\ InitPorts
  /\ runs = <<FirstStep("ais")>>

NextTrack ==
  \/ AdvanceTime
  \/ CronTick("ais")
  \/ \E t \in TrackIds : TtlExpire(t)
  \/ \E r \in RunIds :
        \/ AisFetch(r)
        \/ AisFind(r)
        \/ AisSaveVessel(r)
        \/ AisFindTrack(r)
        \/ AisCreateTrack(r)
        \/ AisSaveTrack(r)
        \/ AwaitRejects(r)
        \/ PublishThrows(r)

SpecTrack == InitTrack /\ [][NextTrack]_vars

\* server start with only the weather job: vessel 1 lies inside both storm
\* zones, vessel 2 (if it has a position) is far from them.  Zone 1 was
\* created (POST /api/safety/zones) with a start date of now or of a later day.
InitWeather ==
  /\ InitCommon
  /\ tracks = <<>>
  /\ aisConfigured = FALSE
  /\ weatherConfigured \in BOOLEAN
  /\ vessels \in {[v \in VesselIds |->
                     IF v = 1 THEN InitVessel("underway", TRUE, 0)
                     ELSE InitVessel("at_anchor", p, 500000)] : p \in {FALSE}}
  /\ zones \in {[z \in ZoneIds |->
                   [type |-> "storm", severity |-> IF z = 1 THEN "high" ELSE "critical",
                    isActive |-> IF z = 1 THEN a ELSE ~a, startDate |-> IF z = 1 THEN d ELSE 0,
                    endDate |-> 0 - 1, south |-> 0 - 1000, north |-> 1000]] :
                  a \in BOOLEAN, d \in {StartTime, MaxTime + 1}}
  /\ InitPorts
  /\ runs = <<FirstStep("weather")>>

NextWeather ==
  \/ AdvanceTime
  \/ CronTick("weather")
  \/ \E z \in ZoneIds, b \in BOOLEAN : AdminUpdateZone(z, b)
  \/ \E r \in RunIds :
        \/ WeatherFindVessels(r)
        \/ WeatherFindStorms(r)
        \/ WeatherDeactivate(r)
        \/ WeatherNear(r)
        \/ WeatherFindAlert(r)
        \/ WeatherCreateAlert(r)
        \/ AwaitRejects(r)
        \/ PublishThrows(r)

SpecWeather == InitWeather /\ [][NextWeather]_vars

\* server start with only the congestion job: vessel 1 is moored in the port,
\* vessel 2 lies at anchor, with or without a known position
InitCongestion ==
  /\ InitCommon
  /\ tracks = <<>>
  /\ aisConfigured = FALSE
  /\ weatherConfigured = FALSE
  /\ vessels \in {[v \in VesselIds |->
                     IF v = 1 THEN InitVessel("moored", TRUE, 0)
                     ELSE InitVessel("at_anchor", p, 0)] : p \in BOOLEAN}
  /\ zones = [z \in ZoneIds |-> [type |-> "storm", severity |-> "high", isActive |-> FALSE,
                                 startDate |-> 0, endDate |-> 0 - 1, south |-> 0, north |-> 0]]
  /\ InitPorts
  /\ runs = <<FirstStep("congestion")>>

NextCongestion ==
  \/ AdvanceTime
  \/ CronTick("congestion")
  \/ \E p \in PortIds, status \in {"green", "red"} : AdminUpdatePort(p, status)
  \/ \E r \in RunIds :
        \/ CongestionFindPorts(r)
        \/ CongestionFindVessels(r)
        \/ CongestionSavePort(r)
        \/ CongestionCreateAlert(r)
        \/ AwaitRejects(r)
        \/ PublishThrows(r)

SpecCongestion == InitCongestion /\ [][NextCongestion]_vars

\* server start as server.js does it: the three jobs are scheduled and each
\* is called once.  One vessel is underway inside storm zone 1, the other is
\* moored in the port.  The rejections considered here are those of the
\* awaited database calls; a throwing emit is considered job by job above.
InitAll ==
  /\ InitCommon
  /\ tracks = <<>>
  /\ aisConfigured = TRUE
  /\ weatherConfigured = TRUE
  /\ vessels = [v \in VesselIds |->
                  IF v = 1 THEN InitVessel("underway", TRUE, 0)
                  ELSE InitVessel("moored", TRUE, 0)]
  /\ zones = [z \in ZoneIds |->
                [type |-> "storm", severity |-> "high", isActive |-> z = 1, startDate |-> StartTime,
                 endDate |-> 0 - 1, south |-> 0 - 1000, north |-> 1000]]
  /\ InitPorts
  /\ runs = <<FirstStep("ais"), FirstStep("weather"), FirstStep("congestion")>>

NextAll ==
  \/ AdvanceTime
  \/ \E job \in Jobs : CronTick(job)
  \/ \E r \in RunIds :
        \/ AisFetch(r)
        \/ AisFind(r)
        \/ AisSaveVessel(r)
        \/ AisFindTrack(r)
        \/ AisCreateTrack(r)
        \/ AisSaveTrack(r)
        \/ WeatherFindVessels(r)
        \/ WeatherFindStorms(r)
        \/ WeatherDeactivate(r)
        \/ WeatherNear(r)
        \/ WeatherFindAlert(r)
        \/ WeatherCreateAlert(r)
        \/ CongestionFindPorts(r)
        \/ CongestionFindVessels(r)
        \/ CongestionSavePort(r)
        \/ CongestionCreateAlert(r)
        \/ AwaitRejects(r)

Spec == InitAll /\ [][NextAll]_vars

\* the login route alone: the jobs are not started.  The account may have
\* been deactivated or locked by an administrator.
InitAuth ==
  /\ InitLogins
  /\ InitStore
  /\ user \in {[NoUser EXCEPT !.isActive = a, !.isLocked = l] : a, l \in BOOLEAN}
  /\ aisConfigured = FALSE
  /\ weatherConfigured = FALSE
  /\ vessels = [v \in VesselIds |-> InitVessel("moored", FALSE, 0)]
  /\ tracks = <<>>
  /\ zones = [z \in ZoneIds |-> [type |-> "storm", severity |-> "high", isActive |-> FALSE,
                                 startDate |-> 0, endDate |-> 0 - 1, south |-> 0, north |-> 0]]
  /\ InitPorts
  /\ runs = <<>>

NextAuth ==
  \/ AdvanceClock
  \/ \E i \in LoginSlots :
        \/ \E correct, known \in BOOLEAN : LoginRequest(i, correct, known)
        \/ LoginFind(i)
        \/ LoginCompare(i)
        \/ LoginIncrement(i)
        \/ LoginReset(i)
        \/ LoginSave(i)

SpecAuth == InitAuth /\ [][NextAuth]_vars

\* ------------------------------------------------------------------ claims
\* run r takes a step of its own that is not a rejected await
Steps(r, job, pc) ==
  /\ r \in Indices(runs)
  /\ runs[r].job = job /\ runs[r].pc = pc
  /\ runs'[r] # runs[r]
  /\ ~runs'[r].failed

\* the loop of run r has left the document it was at
MovedOn(r) == runs'[r].pc = "done" \/ runs'[r].idx > runs[r].idx

\* C1: the timestamp of a vessel's stored current position never decreases,
\* whatever the order in which the saves of overlapping position-sync runs
\* reach the store.
C1_TimestampNeverDecreases ==
  [][\A v \in VesselIds :
       vessels'[v].currentPosition.timestamp >= vessels[v].currentPosition.timestamp]_vars

\* C2: there is at most one active weather alert per vessel in every
\* reachable state.
C2_OneOpenAlertPerVessel ==
  \A v \in VesselIds : Cardinality(ActiveWeatherAlerts(v)) <= 1

\* C3: once a weather alert has been created for a vessel, no step that
\* leaves the set of storms in range of the vessel the same (and non-empty)
\* creates another alert for it or emits another alert event for it.
StormsInRange(v) == NearbyStorms(vessels[v].currentPosition)

AlertEventsFor(v) == BagCardinality([e \in {x \in BagToSet(emitted) : x.event = "alert:created" /\ x.id = v} |-> emitted[e]])

C3_NoRepeatedAlertWhileInRange ==
  [][\A v \in VesselIds :
       (/\ WeatherAlerts(v) # {}
        /\ vessels[v].currentPosition.set
        /\ StormsInRange(v) # {}
        /\ StormsInRange(v)' = StormsInRange(v))
       => (WeatherAlerts(v)' = WeatherAlerts(v) /\ AlertEventsFor(v)' = AlertEventsFor(v))]_vars

\* C4: a proximity query of a weather run that finds no storm in range of a
\* vessel with an active weather alert leaves that vessel without an active
\* weather alert (the alert is resolved) and one alert-resolved event richer.
ResolvedEventsFor(v) == BagCardinality([e \in {x \in BagToSet(emitted) : x.event = "alert:resolved" /\ x.id = v} |-> emitted[e]])

C4_OutOfRangeResolvesAlert ==
  [][\A r \in Indices(runs), v \in VesselIds :
       (/\ Steps(r, "weather", "near")
        /\ Cur(r).id = v
        /\ NearbyStorms(Cur(r).currentPosition) = {}
        /\ ActiveWeatherAlerts(v) # {})
       => (/\ ActiveWeatherAlerts(v)' = {}
           /\ ResolvedEventsFor(v)' = ResolvedEventsFor(v) + 1)]_vars

\* C5: when a vessel has been found out of range since its last weather
\* alert was created (so that alert has been resolved) and the latest query
\* finds it in range again, the run that looks for its open alert goes on to
\* create a new alert; and an alert that is resolved is never set back to
\* active.
C5_ReentryOpensNewAlert ==
  [][/\ \A r \in Indices(runs) :
          (/\ Steps(r, "weather", "findAlert")
           /\ cleared[Cur(r).id]
           /\ lastNear[Cur(r).id] = "in")
          => runs'[r].pc = "createAlert"
     /\ \A a \in Indices(alerts) :
          alerts[a].status = "resolved" => alerts'[a].status = "resolved"]_vars

\* C6: a run that finds a critical storm in range of a vessel whose active
\* weather alert has severity warning raises that alert to critical, and no
\* step lowers the severity of an active alert.
C6_SeverityFollowsPeak ==
  [][/\ \A r \in Indices(runs) :
          (/\ Steps(r, "weather", "findAlert")
           /\ ExistingAlert(Cur(r).id) # 0
           /\ AlertSeverity(runs[r].nearbyStorms) = "critical")
          => alerts'[ExistingAlert(Cur(r).id)].severity = "critical"
     /\ \A a \in Indices(alerts) :
          (alerts[a].status = "active" /\ alerts[a].severity = "critical")
          => alerts'[a].severity = "critical"]_vars

\* C7: the proximity query of a weather run that finds no storm in range of
\* a vessel without an active weather alert changes no alert, emits no event
\* and ends the run's handling of that vessel.
C7_NothingInRangeNoEffect ==
  [][\A r \in Indices(runs) :
       (/\ Steps(r, "weather", "near")
        /\ NearbyStorms(Cur(r).currentPosition) = {}
        /\ ActiveWeatherAlerts(Cur(r).id) = {})
       => (alerts' = alerts /\ emitted' = emitted /\ MovedOn(r))]_vars

\* a proximity query has found vessel 1 out of range while no alert exists
C7_Witness ==
  /\ lastNear[1] = "out"
  /\ alerts = <<>>
  /\ emitted = EmptyBag
  /\ \E r \in Indices(runs) : runs[r].job = "weather" /\ runs[r].pc = "done" /\ ~runs[r].failed

\* C8: at most one run of each job is executing at any time.
C8_NoOverlappingRuns ==
  \A job \in Jobs : Cardinality(Running(job)) <= 1

\* C9: a run finishes only when no document with a position is left in its
\* batch after the one it was at; a rejected await for one vessel does not
\* end the run early.
C9_FailureDoesNotEndBatch ==
  [][\A r \in Indices(runs) :
       (runs[r].job = "ais" /\ runs[r].pc # "done" /\ runs'[r].pc = "done")
       => SkipNoPosition(runs[r].batch, runs[r].idx + 1) > Len(runs[r].batch)]_vars

\* C10: once a run of any job has failed the process is still up and every
\* job's cron firing is still able to start a run (as far as the bounds of
\* the model go).
WithinBounds(job) ==
  /\ Cardinality(RunsOf(job)) < RunBound(job)
  /\ Len(runs) < MaxTotalRuns
  /\ Cardinality(Running(job)) < MaxOverlap

C10_FailedRunLeavesSchedulerRunning ==
  (\E r \in Indices(runs) : runs[r].failed)
  => (processUp /\ \A job \in Jobs : WithinBounds(job) => ENABLED CronTick(job))

\* a run has failed and the next firing of its job is able to start a run
C10_Witness ==
  \E r \in Indices(runs) :
    /\ runs[r].failed
    /\ WithinBounds(runs[r].job)
    /\ ENABLED CronTick(runs[r].job)

\* run r is at the await of track.save() and the save changes the stored tracks
Appends(r) ==
  /\ r \in Indices(runs)
  /\ runs[r].job = "ais" /\ runs[r].pc = "saveTrack"
  /\ runs'[r] # runs[r]
  /\ tracks' # tracks

\* the last n elements of a sequence (all of it when it is shorter)
LastUpTo(s, n) == IF Len(s) > n THEN SubSeq(s, Len(s) - n + 1, Len(s)) ELSE s

\* C11: every append to a track leaves it holding the stored observations
\* followed by the new one, cut down to the most recent MaxTrackPositions
\* in their order (so a track never holds more than the cap), and leaves the
\* observations of every other track as they were.
C11_TrackKeepsLatestUpToCap ==
  [][\A r \in Indices(runs) :
       Appends(r) =>
         /\ tracks'[runs[r].track.id].positions =
              LastUpTo(Append(tracks[runs[r].track.id].positions, runs[r].newPosition),
                       MaxTrackPositions)
         /\ \A u \in Indices(tracks) :
              u # runs[r].track.id => tracks'[u].positions = tracks[u].positions]_vars

\* the gap threshold in hours: the code has no such setting, so the value
\* is a parameter of the property (any value below StartTime would do)
GapThreshold == 5

\* C12: an observation saved for a vessel whose open track ends more than
\* GapThreshold before it closes that track at the time of its last
\* observation and becomes the only observation of a new open track; an
\* observation within the threshold becomes the last one of the open track.
C12_GapStartsNewTrack ==
  [][\A r \in Indices(runs) :
       Appends(r) =>
         LET t == runs[r].track.id
             last == tracks[t].positions[Len(tracks[t].positions)]
             gap == runs[r].newPosition.timestamp - last.timestamp
         IN /\ gap > GapThreshold =>
                 /\ tracks'[t].endTime = last.timestamp
                 /\ Len(tracks') = Len(tracks) + 1
                 /\ tracks'[Len(tracks')].positions = <<runs[r].newPosition>>
                 /\ tracks'[Len(tracks')].endTime = 0 - 1
            /\ (gap >= 0 /\ gap <= GapThreshold) =>
                 /\ Len(tracks') = Len(tracks)
                 /\ tracks'[t].positions[Len(tracks'[t].positions)] = runs[r].newPosition]_vars

\* C13: in every reachable state the observations of every track are in
\* non-decreasing order of timestamp.
C13_TrackOrderedByTime ==
  \A t \in Indices(tracks) :
    \A i \in 1..(Len(tracks[t].positions) - 1) :
      tracks[t].positions[i].timestamp <= tracks[t].positions[i + 1].timestamp

\* C14: no step of a job run changes a hazard zone: a step that changes
\* runs leaves zones as they were.
C14_JobsLeaveZonesAlone ==
  [][runs' # runs => zones' = zones]_vars

\* C15: when the emit that follows the track write of a position-sync run
\* throws (the track is written, the run is marked failed), the vessel's
\* stored state is kept and the run ends only if no vessel with a position
\* is left in its batch.
C15_PublishFailureDoesNotEndBatch ==
  [][\A r \in Indices(runs) :
       (/\ runs[r].job = "ais" /\ runs[r].pc \in {"createTrack", "saveTrack"}
        /\ runs'[r] # runs[r]
        /\ tracks' # tracks
        /\ runs'[r].failed)
       => /\ vessels' = vessels
          /\ (runs'[r].pc = "done"
                => SkipNoPosition(runs[r].batch, runs[r].idx + 1) > Len(runs[r].batch))]_vars

\* C16: a login request that is looked up while the account has MaxAttempts
\* or more failed attempts and its lockout time has not passed is answered
\* 423, whatever its password.
C16_LockedAfterMaxAttempts ==
  [][\A i \in LoginSlots :
       (/\ logins[i].pc = "find" /\ logins[i].known
        /\ logins'[i] # logins[i]
        /\ user.loginAttempts >= MaxAttempts
        /\ user.lockoutUntil > clock)
       => logins'[i].status = 423]_vars

\* the order low < medium < high < critical of zone severities
Rank(severity) ==
  CASE severity = "low" -> 1 [] severity = "medium" -> 2
    [] severity = "high" -> 3 [] severity = "critical" -> 4

MaxRank(storms) == CHOOSE n \in 1..4 :
  /\ \E s \in storms : Rank(s.severity) = n
  /\ \A s \in storms : Rank(s.severity) <= n

\* C17: the severity of a weather alert a run creates tells the maximum
\* severity of the storms it was created for: a set of storms with another
\* maximum severity would not open an alert of that same severity.
C17_OpenedSeverityIsMaximum ==
  [][\A r \in Indices(runs) :
       (Steps(r, "weather", "createAlert") /\ Len(alerts') = Len(alerts) + 1)
       => \A other \in {"low", "medium", "high", "critical"} :
            Rank(other) # MaxRank(runs[r].nearbyStorms)
            => AlertSeverity({[id |-> 0, severity |-> other]}) # alerts'[Len(alerts')].severity]_vars

\* C18: the save of an observation that is older than the last observation
\* of the stored track leaves the observations of that track as they were.
C18_OlderObservationRejected ==
  [][\A r \in Indices(runs) :
       (/\ runs[r].job = "ais" /\ runs[r].pc = "saveTrack"
        /\ runs'[r] # runs[r]
        /\ runs[r].newPosition.timestamp
             < tracks[runs[r].track.id].positions[Len(tracks[runs[r].track.id].positions)].timestamp)
       => tracks'[runs[r].track.id].positions = tracks[runs[r].track.id].positions]_vars

\* C19: no step changes the start time or the retention date of a track
\* that exists; in particular an append that evicts old observations keeps
\* both as they were set when the track was opened.
C19_AppendKeepsTrackBoundaries ==
  [][\A t \in Indices(tracks) :
       /\ tracks'[t].startTime = tracks[t].startTime
       /\ tracks'[t].retentionDate = tracks[t].retentionDate]_vars

\* the track of vessel 1 is at the cap and has lost its oldest observation
C19_Witness ==
  /\ Len(tracks) >= 1
  /\ Len(tracks[1].positions) = MaxTrackPositions
  /\ tracks[1].positions[1].timestamp > 2 - MaxTrackPositions
  /\ tracks[1].positions[MaxTrackPositions].timestamp >= StartTime
  /\ tracks[1].startTime = StartTime + 1 - RetentionHours

\* C20: a track is deleted only when it has an end time and that end time
\* is older than the retention horizon.
C20_RetentionDeletesOnlyOldClosedTracks ==
  [][\A t \in Indices(tracks) :
       (tracks'[t].deleted /\ ~tracks[t].deleted)
       => (tracks[t].endTime # 0 - 1 /\ tracks[t].endTime < now - RetentionHours)]_vars

\* C21: no track is deleted while a position-sync run holds it as the open
\* track it has loaded and is about to save.
C21_NoDeletionDuringAppend ==
  [][\A t \in Indices(tracks) :
       (tracks'[t].deleted /\ ~tracks[t].deleted)
       => ~\E r \in Indices(runs) :
             runs[r].job = "ais" /\ runs[r].pc = "saveTrack" /\ runs[r].track.id = t]_vars

\* a storm document is inside its validity window at time at
TimeValid(s, at) == s.startDate <= at /\ (s.endDate = 0 - 1 \/ s.endDate >= at)

\* C22: every storm zone a weather-sync run creates an alert for was, when the
\* run queried it, active and inside its validity window (started, not ended).
C22_OnlyValidZonesOpenAlerts ==
  [][\A r \in Indices(runs) :
       (Steps(r, "weather", "createAlert") /\ Len(alerts') = Len(alerts) + 1)
       => \A s \in runs[r].nearbyStorms : TimeValid(s, runs[r].queriedAt)]_vars

\* the last position of the track that run r has just created or saved
LastWritten(r) ==
  LET t == IF runs[r].pc = "createTrack" THEN Len(tracks') ELSE runs[r].track.id
  IN IF t \in Indices(tracks') /\ Len(tracks'[t].positions) > 0
     THEN [mmsi |-> tracks'[t].mmsi, position |-> tracks'[t].positions[Len(tracks'[t].positions)]]
     ELSE [mmsi |-> 0, position |-> NoPosition]

\* C23: within one position-sync run the steps for a vessel are the write of
\* the current state, then the write of the history, then the event, and the
\* loop reaches the next vessel only with the event: the vessel write stores
\* the reading and leads to the track lookup with nothing else written, the
\* lookup leads to the track write, the track write stores that same reading
\* as the last position of the vessel's track and emits its event, and an
\* event is emitted by no other step.
C23_WriteThenHistoryThenEvent ==
  [][/\ \A r \in Indices(runs) :
          /\ Steps(r, "ais", "saveVessel")
             => /\ runs'[r].pc = "findTrack"
                /\ runs'[r].idx = runs[r].idx /\ runs'[r].newPosition = runs[r].newPosition
                /\ vessels'[Cur(r).id].currentPosition = runs[r].newPosition
                /\ tracks' = tracks /\ emitted' = emitted
          /\ Steps(r, "ais", "findTrack")
             => /\ runs'[r].pc \in {"createTrack", "saveTrack"}
                /\ runs'[r].idx = runs[r].idx /\ runs'[r].newPosition = runs[r].newPosition
                /\ vessels' = vessels /\ tracks' = tracks /\ emitted' = emitted
          /\ (Steps(r, "ais", "createTrack") \/ Steps(r, "ais", "saveTrack"))
             => /\ LastWritten(r) = [mmsi |-> Cur(r).id, position |-> runs[r].newPosition]
                /\ emitted' = Emit(PositionEvent(r))
                /\ \/ runs'[r].pc = "done"
                   \/ runs'[r].pc = "saveVessel" /\ runs'[r].idx > runs[r].idx
          /\ (runs'[r] # runs[r] /\ runs[r].job = "ais" /\ runs'[r].pc = "saveVessel")
             => runs[r].pc \in {"find", "createTrack", "saveTrack"}
     /\ emitted' # emitted
        => \E r \in Indices(runs) :
              Steps(r, "ais", "createTrack") \/ Steps(r, "ais", "saveTrack")]_vars

\* a run has written and announced its first vessel and is at its second
C23_Witness ==
  \E r \in Indices(runs) :
     /\ runs[r].job = "ais" /\ runs[r].pc = "saveVessel" /\ runs[r].idx = 2
     /\ \E e \in BagToSet(emitted) : e.id = runs[r].batch[1].id
     /\ \E t \in Indices(tracks) :
           tracks[t].mmsi = runs[r].batch[1].id /\ Len(tracks[t].positions) > 0

\* a document whose position record, or the latitude in it, is missing
MissingFields(doc) ==
  ~doc.currentPosition.set \/ doc.currentPosition.latitude = NotANumber

\* C24: a position-sync run whose loop is at a vessel with missing position
\* fields writes nothing and emits nothing for it, and does not return while
\* a vessel with complete position fields is left in its batch.
C24_MissingFieldsSkipped ==
  [][\A r \in Indices(runs) :
       (/\ runs[r].job = "ais" /\ runs[r].pc = "saveVessel"
        /\ MissingFields(Cur(r))
        /\ runs'[r] # runs[r])
       => /\ vessels' = vessels /\ tracks' = tracks /\ emitted' = emitted
          /\ runs'[r].pc = "done"
             => ~\E j \in (runs[r].idx + 1)..Len(runs[r].batch) :
                   ~MissingFields(runs[r].batch[j])]_vars

\* C25: whatever the outcome of the call to the AIS source, the run goes on
\* to load its vessel batch, and after a failed call the loaded batch is
\* processed: the run is at the first vessel that has a position, or has
\* completed because there is none.
C25_FetchFailureNotFatal ==
  [][\A r \in Indices(runs) :
       /\ (runs[r].job = "ais" /\ runs[r].pc = "fetch" /\ runs'[r] # runs[r])
          => runs'[r].pc = "find" /\ ~runs'[r].failed /\ processUp'
       /\ (Steps(r, "ais", "find") /\ runs[r].fetchFailed)
          => LET batch == Limit(Snapshot(SetToSeq(UnderwayIds)), FindLimit)
                 j == SkipNoPosition(batch, 1)
             IN IF j > Len(batch) THEN runs'[r].pc = "done"
                ELSE /\ runs'[r].pc = "saveVessel"
                     /\ runs'[r].batch = batch /\ runs'[r].idx = j]_vars

\* a run whose call to the AIS source failed is processing its batch
C25_Witness ==
  \E r \in Indices(runs) : runs[r].job = "ais" /\ runs[r].pc = "find" /\ runs[r].fetchFailed

\* C26: in every reachable state every vessel has at most one open track.
C26_OneOpenTrackPerVessel ==
  \A v \in VesselIds : Cardinality(OpenTracks(v)) <= 1

\* the stored congestion status of port p
StoredStatus(p) == ports[p].currentCongestion.status

C28_HistoryHoldsLatestAndRecentOnly ==
  [][\A r \in Indices(runs) :
       Steps(r, "congestion", "savePort")
       => LET port == ports'[Cur(r).id]
              h == port.congestionHistory
          IN /\ Len(h) > 0
             /\ h[Len(h)].status = port.currentCongestion.status
             /\ h[Len(h)].vesselsWaiting = port.currentCongestion.vesselsWaiting
             /\ h[Len(h)].timestamp = port.currentCongestion.lastUpdated
             /\ \A i \in Indices(h) :
                   h[i].timestamp >= port.currentCongestion.lastUpdated - HistoryHours]_vars

\* a run has saved a port whose stored history held an entry older than 30
\* days and a younger one: the old entry is gone, the younger one is kept
C28_Witness ==
  \E p \in PortIds :
     LET h == ports[p].congestionHistory
     IN /\ ports[p].version > 0
        /\ Len(h) >= 2
        /\ h[1].timestamp = 0
        /\ h[Len(h)].timestamp = ports[p].currentCongestion.lastUpdated
        /\ h[Len(h)].timestamp >= StartTime
        /\ \E r \in RunsOf("congestion") : runs[r].pc = "done" /\ ~runs[r].failed

\* the external source of a job is configured (congestion-sync has none)
Configured(job) ==
  CASE job = "ais" -> aisConfigured
    [] job = "weather" -> weatherConfigured
    [] OTHER -> TRUE

\* C29: a run of a job whose external source is not configured has returned
\* when it is called, with nothing loaded, and no step of such a run writes a
\* vessel, track, zone, alert or port or emits an event.
C29_UnconfiguredRunIsNoOp ==
  [][/\ \A r \in Indices(runs') :
          ~Configured(runs'[r].job) => runs'[r] = NewRun(runs'[r].job, "done")
     /\ \A r \in Indices(runs) :
          (~Configured(runs[r].job) /\ runs'[r] # runs[r])
          => UNCHANGED <<vessels, tracks, zones, alerts, ports, emitted>>
     /\ (\E r \in Indices(runs') : r \notin Indices(runs) /\ ~Configured(runs'[r].job))
        => UNCHANGED <<vessels, tracks, zones, alerts, ports, emitted>>]_vars

\* position-sync is not configured, it has been called at startup and by the
\* scheduler, and nothing has been written or emitted
C29_Witness ==
  /\ ~aisConfigured
  /\ Cardinality(RunsOf("ais")) >= 2
  /\ \A r \in RunsOf("ais") : runs[r].pc = "done"
  /\ tracks = <<>> /\ alerts = <<>> /\ emitted = EmptyBag
  /\ \E v \in UnderwayIds : vessels[v].currentPosition.set /\ vessels[v].aisLastUpdate = 0

\* C30: no login request is answered 200 (a token) while the account is
\* locked by an administrator.
C30_LockedAccountGetsNoToken ==
  [][\A i \in LoginSlots :
       (logins'[i].status = 200 /\ logins[i].status # 200) => ~user.isLocked]_vars

====
